---- MODULE Spec2Model ----
(***************************************************************************)
(* json-utils: canonicalize, createCanonicalJsonString (the spec's         *)
(* stableStringify), semanticEquals and dedupeBy / semanticDedupe,         *)
(* modelled over JavaScript values.                                        *)
(*                                                                         *)
(* A JavaScript object is modelled by the sequence of its own enumerable   *)
(* properties in the order Object.keys and JSON.stringify visit them:      *)
(* array-index keys first, in ascending numeric order, then the other      *)
(* string keys in insertion order.                                         *)
(***************************************************************************)
EXTENDS Integers, Sequences, FiniteSets, TLC

(***************************************************************************)
(* Bounds of the explored inputs.                                          *)
(***************************************************************************)
MaxNodes == 3       \* nodes of an exhaustively enumerated input tree
MaxPairNodes == 2   \* nodes of each tree of an enumerated pair of inputs
MaxLen == 3         \* length of the sequences that are reordered
MaxItems == 3       \* length of the lists that are deduplicated
MaxText == 3        \* number of tokens of the texts that are parsed
MaxCtxItems == 2    \* length of the lists deduplicated in concurrent contexts
StackLimit == 3     \* calls of canonicalize the engine's call stack has room for

(***************************************************************************)
(* The engine the package runs on.                                         *)
(***************************************************************************)
VARIABLE runtime

\* The package installs on Deno, Node and Bun.  Node and Bun keep the accessor
\* Object.prototype.__proto__; Deno removes it at startup.
Runtimes == {"node", "deno"}
HasProtoAccessor == runtime = "node"

(***************************************************************************)
(* JsonLikeValue: the data model.                                          *)
(***************************************************************************)
Absent == [k |-> "undefined"]
Null == [k |-> "null"]
Bool(b) == [k |-> "boolean", b |-> b]
Num(n) == [k |-> "number", n |-> n, sp |-> "finite"]
NegZero == [k |-> "number", n |-> 0, sp |-> "negzero"]
NaN == [k |-> "number", n |-> 0, sp |-> "nan"]
Str(s) == [k |-> "string", s |-> s]
Arr(items) == [k |-> "array", items |-> items]
Obj(entries) == [k |-> "object", entries |-> entries]
Prop(key, val) == [key |-> key, val |-> val]

IsComposite(v) == v.k \in {"array", "object"}

(***************************************************************************)
(* Strings.  TLC cannot look inside a string, so the UTF-16 code units of  *)
(* every string the model uses are tabulated.                              *)
(***************************************************************************)
UnitsOf(s) ==
    CASE s = "a" -> <<97>>
      [] s = "b" -> <<98>>
      [] s = "1" -> <<49>>
      [] s = "2" -> <<50>>
      [] s = "10" -> <<49, 48>>
      [] s = "__proto__" -> <<95, 95, 112, 114, 111, 116, 111, 95, 95>>
      [] s = "c" -> <<99>>
      [] s = "q\"" -> <<113, 34>>

CharOf(u) ==
    CASE u = 34 -> "\""
      [] u = 48 -> "0"
      [] u = 49 -> "1"
      [] u = 50 -> "2"
      [] u = 95 -> "_"
      [] u = 97 -> "a"
      [] u = 98 -> "b"
      [] u = 99 -> "c"
      [] u = 111 -> "o"
      [] u = 112 -> "p"
      [] u = 113 -> "q"
      [] u = 114 -> "r"
      [] u = 116 -> "t"

IsDigit(u) == u >= 48 /\ u <= 57

RECURSIVE DigitsValue(_, _)
DigitsValue(units, n) ==
    IF n = 0 THEN 0 ELSE 10 * DigitsValue(units, n - 1) + (units[n] - 48)

\* A canonical numeric string: such keys are ordered numerically by the engine.
IsArrayIndex(key) ==
    LET u == UnitsOf(key)
    IN  /\ Len(u) > 0
        /\ \A i \in 1..Len(u) : IsDigit(u[i])
        /\ (Len(u) = 1 \/ u[1] # 48)

IndexOf(key) == DigitsValue(UnitsOf(key), Len(UnitsOf(key)))

(***************************************************************************)
(* Own properties of an ordinary object.                                   *)
(***************************************************************************)
ObjectKeys(obj) == [i \in 1..Len(obj.entries) |-> obj.entries[i].key]

HasOwnProperty(obj, key) == \E i \in 1..Len(obj.entries) : obj.entries[i].key = key

KeySet(obj) == {obj.entries[i].key : i \in 1..Len(obj.entries)}

\* obj[key] on an object whose prototype chain holds no data property.
Get(obj, key) ==
    IF HasOwnProperty(obj, key)
    THEN obj.entries[CHOOSE i \in 1..Len(obj.entries) : obj.entries[i].key = key].val
    ELSE Absent

\* The position at which a new own property is created.
InsertAt(entries, key) ==
    IF IsArrayIndex(key)
    THEN 1 + Cardinality({i \in 1..Len(entries) :
                            /\ IsArrayIndex(entries[i].key)
                            /\ IndexOf(entries[i].key) < IndexOf(key)})
    ELSE Len(entries) + 1

\* newObj[key] = val on an object created by the literal {}: an assignment,
\* so where Object.prototype has the accessor __proto__ the key "__proto__"
\* reaches it and no own property is created.
ObjSet(obj, key, val) ==
    IF key = "__proto__" /\ HasProtoAccessor THEN obj
    ELSE IF HasOwnProperty(obj, key)
    THEN Obj([i \in 1..Len(obj.entries) |->
                IF obj.entries[i].key = key THEN Prop(key, val) ELSE obj.entries[i]])
    ELSE LET p == InsertAt(obj.entries, key)
         IN  Obj(SubSeq(obj.entries, 1, p - 1) \o <<Prop(key, val)>>
                   \o SubSeq(obj.entries, p, Len(obj.entries)))

(***************************************************************************)
(* Array.prototype.sort on the keys.                                       *)
(***************************************************************************)
RECURSIVE LexCompare(_, _, _)
LexCompare(u, v, i) ==
    IF i > Len(u) /\ i > Len(v) THEN 0
    ELSE IF i > Len(u) THEN -1
    ELSE IF i > Len(v) THEN 1
    ELSE IF u[i] < v[i] THEN -1
    ELSE IF u[i] > v[i] THEN 1
    ELSE LexCompare(u, v, i + 1)

\* Collation weight of a code unit for String.prototype.localeCompare:
\* punctuation, then digits, then letters.
CollationWeight(u) ==
    IF IsDigit(u) THEN 100 + u
    ELSE IF u >= 97 /\ u <= 122 THEN 200 + u
    ELSE u

LocaleCompare(a, b) ==
    LexCompare([i \in 1..Len(UnitsOf(a)) |-> CollationWeight(UnitsOf(a)[i])],
               [i \in 1..Len(UnitsOf(b)) |-> CollationWeight(UnitsOf(b)[i])], 1)

\* The comparators handed to canonicalize: none (the default order of sort,
\* by code units), (a, b) => b.localeCompare(a), and (a, b) => a.length - b.length.
CompareFns == {"undefined", "reverseLocale", "byLength"}

Compare(compareFn, a, b) ==
    CASE compareFn = "undefined" -> LexCompare(UnitsOf(a), UnitsOf(b), 1)
      [] compareFn = "reverseLocale" -> LocaleCompare(b, a)
      [] compareFn = "byLength" -> Len(UnitsOf(a)) - Len(UnitsOf(b))

\* SortKeys without the call of sort: the keys stay in property order.
SortKeysOmitted(keys, compareFn) == keys

\* sort is stable: a key goes behind every key that does not compare greater.
RECURSIVE InsertSorted(_, _, _)
InsertSorted(sorted, key, compareFn) ==
    IF sorted = << >> THEN <<key>>
    ELSE IF Compare(compareFn, sorted[Len(sorted)], key) <= 0
    THEN Append(sorted, key)
    ELSE Append(InsertSorted(SubSeq(sorted, 1, Len(sorted) - 1), key, compareFn),
                sorted[Len(sorted)])

RECURSIVE SortFrom(_, _, _, _)
SortFrom(keys, i, sorted, compareFn) ==
    IF i > Len(keys) THEN sorted
    ELSE SortFrom(keys, i + 1, InsertSorted(sorted, keys[i], compareFn), compareFn)

SortKeys(keys, compareFn) == SortFrom(keys, 1, << >>, compareFn)

(***************************************************************************)
(* canonicalize                                                            *)
(***************************************************************************)
RECURSIVE canonicalize(_, _)
RECURSIVE CanonicalizeProps(_, _, _, _, _)

\* CanonicalizeProps storing the property value as it is: newObj[key] = propertyValue.
CanonicalizePropsShallow(value, sortedKeys, i, newObj, compareFn) ==
    IF i > Len(sortedKeys) THEN newObj
    ELSE LET key == sortedKeys[i]
             propertyValue == Get(value, key)
         IN  IF HasOwnProperty(value, key) /\ propertyValue # Absent
             THEN CanonicalizeProps(value, sortedKeys, i + 1,
                      ObjSet(newObj, key, propertyValue), compareFn)
             ELSE CanonicalizeProps(value, sortedKeys, i + 1, newObj, compareFn)

\* CanonicalizeProps skipping on propertyValue !== null instead of undefined.
CanonicalizePropsSkipNull(value, sortedKeys, i, newObj, compareFn) ==
    IF i > Len(sortedKeys) THEN newObj
    ELSE LET key == sortedKeys[i]
             propertyValue == Get(value, key)
         IN  IF HasOwnProperty(value, key) /\ propertyValue # Null
             THEN CanonicalizeProps(value, sortedKeys, i + 1,
                      ObjSet(newObj, key, canonicalize(propertyValue, compareFn)),
                      compareFn)
             ELSE CanonicalizeProps(value, sortedKeys, i + 1, newObj, compareFn)

\* The loop over sortedKeys that fills newObj.
CanonicalizeProps(value, sortedKeys, i, newObj, compareFn) ==
    IF i > Len(sortedKeys) THEN newObj
    ELSE LET key == sortedKeys[i]
             propertyValue == Get(value, key)
         IN  IF HasOwnProperty(value, key) /\ propertyValue # Absent
             THEN CanonicalizeProps(value, sortedKeys, i + 1,
                      ObjSet(newObj, key, canonicalize(propertyValue, compareFn)),
                      compareFn)
             ELSE CanonicalizeProps(value, sortedKeys, i + 1, newObj, compareFn)

\* canonicalize pushing the array elements as they are: newArray.push(element).
canonicalizeShallowElements(value, compareFn) ==
    IF value = Absent THEN Null
    ELSE IF value = Null \/ ~IsComposite(value) THEN value
    ELSE IF value.k = "array" THEN Arr(value.items)
    ELSE CanonicalizeProps(value, SortKeys(ObjectKeys(value), compareFn), 1,
                           Obj(<< >>), compareFn)

\* canonicalize without Case 1: undefined falls into the primitives.
canonicalizeNoAbsentCase(value, compareFn) ==
    IF value = Null \/ ~IsComposite(value) THEN value
    ELSE IF value.k = "array"
    THEN Arr([i \in 1..Len(value.items) |-> canonicalize(value.items[i], compareFn)])
    ELSE CanonicalizeProps(value, SortKeys(ObjectKeys(value), compareFn), 1,
                           Obj(<< >>), compareFn)

\* canonicalize skipping undefined array elements, as it does for properties.
canonicalizeDropElements(value, compareFn) ==
    IF value = Absent THEN Null
    ELSE IF value = Null \/ ~IsComposite(value) THEN value
    ELSE IF value.k = "array"
    THEN LET Defined(e) == e # Absent
             kept == SelectSeq(value.items, Defined)
         IN  Arr([i \in 1..Len(kept) |-> canonicalize(kept[i], compareFn)])
    ELSE CanonicalizeProps(value, SortKeys(ObjectKeys(value), compareFn), 1,
                           Obj(<< >>), compareFn)

canonicalize(value, compareFn) ==
    IF value = Absent THEN Null
    ELSE IF value = Null \/ ~IsComposite(value) THEN value
    ELSE IF value.k = "array"
    THEN Arr([i \in 1..Len(value.items) |-> canonicalize(value.items[i], compareFn)])
    ELSE CanonicalizeProps(value, SortKeys(ObjectKeys(value), compareFn), 1,
                           Obj(<< >>), compareFn)

(***************************************************************************)
(* canonicalize over the heap.  A composite value is a reference to a node  *)
(* of the heap; a node holds primitives and references.  Every statement    *)
(* of canonicalize that writes names the node it writes to.                 *)
(***************************************************************************)
Ref(id) == [k |-> "ref", id |-> id]

\* The caller's value built on the heap: one new node per array and object.
RECURSIVE Alloc(_, _)
RECURSIVE AllocSlots(_, _, _, _)
AllocSlots(heap, v, i, id) ==
    IF i > (IF v.k = "array" THEN Len(v.items) ELSE Len(v.entries)) THEN heap
    ELSE LET r == Alloc(heap, IF v.k = "array" THEN v.items[i] ELSE v.entries[i].val)
         IN  AllocSlots([r.heap EXCEPT ![id] =
                            IF v.k = "array" THEN Arr(Append(@.items, r.ret))
                            ELSE Obj(Append(@.entries, Prop(v.entries[i].key, r.ret)))],
                        v, i + 1, id)
Alloc(heap, v) ==
    IF ~IsComposite(v) THEN [heap |-> heap, ret |-> v]
    ELSE LET id == Len(heap) + 1
         IN  [heap |-> AllocSlots(Append(heap, IF v.k = "array" THEN Arr(<< >>)
                                               ELSE Obj(<< >>)), v, 1, id),
              ret |-> Ref(id)]

\* The value a primitive or a reference stands for.
RECURSIVE Deref(_, _)
Deref(heap, slot) ==
    IF slot.k # "ref" THEN slot
    ELSE LET node == heap[slot.id]
         IN  IF node.k = "array"
             THEN Arr([i \in 1..Len(node.items) |-> Deref(heap, node.items[i])])
             ELSE Obj([i \in 1..Len(node.entries) |->
                         Prop(node.entries[i].key, Deref(heap, node.entries[i].val))])

\* The nodes reached from a primitive or a reference.
RECURSIVE Reach(_, _)
Reach(heap, slot) ==
    IF slot.k # "ref" THEN {}
    ELSE LET node == heap[slot.id]
         IN  {slot.id} \cup
             (IF node.k = "array"
              THEN UNION {Reach(heap, node.items[i]) : i \in 1..Len(node.items)}
              ELSE UNION {Reach(heap, node.entries[i].val) : i \in 1..Len(node.entries)})

RECURSIVE canonicalizeNode(_, _, _)
RECURSIVE CanonicalizeElements(_, _, _, _, _)
RECURSIVE CanonicalizeEntries(_, _, _, _, _, _)

\* for (const element of value) newArray.push(canonicalize(element, compareFn))
CanonicalizeElements(heap, value, i, newArray, compareFn) ==
    IF i > Len(heap[value].items) THEN heap
    ELSE LET r == canonicalizeNode(heap, heap[value].items[i], compareFn)
         IN  CanonicalizeElements(
                 [r.heap EXCEPT ![newArray] = Arr(Append(@.items, r.ret))],
                 value, i + 1, newArray, compareFn)

\* for (const key of sortedKeys) ... newObj[key] = canonicalize(propertyValue, compareFn)
CanonicalizeEntries(heap, value, sortedKeys, i, newObj, compareFn) ==
    IF i > Len(sortedKeys) THEN heap
    ELSE LET key == sortedKeys[i]
             propertyValue == Get(heap[value], key)
         IN  IF HasOwnProperty(heap[value], key) /\ propertyValue # Absent
             THEN LET r == canonicalizeNode(heap, propertyValue, compareFn)
                  IN  CanonicalizeEntries(
                          [r.heap EXCEPT ![newObj] = ObjSet(@, key, r.ret)],
                          value, sortedKeys, i + 1, newObj, compareFn)
             ELSE CanonicalizeEntries(heap, value, sortedKeys, i + 1, newObj, compareFn)

\* canonicalize returning an empty array as it is.
canonicalizeNodeReuseEmpty(heap, value, compareFn) ==
    IF value = Absent THEN [heap |-> heap, ret |-> Null]
    ELSE IF value.k # "ref" THEN [heap |-> heap, ret |-> value]
    ELSE IF heap[value.id].k = "array"
    THEN IF heap[value.id].items = << >> THEN [heap |-> heap, ret |-> value]
         ELSE LET newArray == Len(heap) + 1
              IN  [heap |-> CanonicalizeElements(Append(heap, Arr(<< >>)), value.id, 1,
                                                 newArray, compareFn),
                   ret |-> Ref(newArray)]
    ELSE LET sortedKeys == SortKeys(ObjectKeys(heap[value.id]), compareFn)
             newObj == Len(heap) + 1
         IN  [heap |-> CanonicalizeEntries(Append(heap, Obj(<< >>)), value.id, sortedKeys,
                                           1, newObj, compareFn),
              ret |-> Ref(newObj)]

\* canonicalize: the heap after the call and what the call returns.
canonicalizeNode(heap, value, compareFn) ==
    IF value = Absent THEN [heap |-> heap, ret |-> Null]
    ELSE IF value.k # "ref" THEN [heap |-> heap, ret |-> value]
    ELSE IF heap[value.id].k = "array"
    THEN LET newArray == Len(heap) + 1
         IN  [heap |-> CanonicalizeElements(Append(heap, Arr(<< >>)), value.id, 1,
                                            newArray, compareFn),
              ret |-> Ref(newArray)]
    ELSE LET sortedKeys == SortKeys(ObjectKeys(heap[value.id]), compareFn)
             newObj == Len(heap) + 1
         IN  [heap |-> CanonicalizeEntries(Append(heap, Obj(<< >>)), value.id, sortedKeys,
                                           1, newObj, compareFn),
              ret |-> Ref(newObj)]

(***************************************************************************)
(* JSON.stringify(value, null, undefined) and createCanonicalJsonString    *)
(***************************************************************************)
EscapeUnit(u) ==
    IF u = 34 THEN "\\\"" ELSE IF u = 92 THEN "\\\\" ELSE CharOf(u)

RECURSIVE QuoteUnits(_, _)
QuoteUnits(units, i) ==
    IF i > Len(units) THEN "" ELSE EscapeUnit(units[i]) \o QuoteUnits(units, i + 1)

\* QuoteJSONString without the quotation marks around the string.
QuoteJSONStringBare(s) == QuoteUnits(UnitsOf(s), 1)

QuoteJSONString(s) == "\"" \o QuoteUnits(UnitsOf(s), 1) \o "\""

NumberToJSON(v) ==
    IF v.sp = "nan" THEN "null" ELSE IF v.sp = "negzero" THEN "0" ELSE ToString(v.n)

RECURSIVE JSONStringify(_)
RECURSIVE SerializeElements(_, _)
RECURSIVE SerializeProps(_, _, _)

\* Array elements; an element JSON cannot represent is written as null.
SerializeElements(items, i) ==
    IF i > Len(items) THEN ""
    ELSE (IF i > 1 THEN "," ELSE "")
           \o (IF items[i] = Absent THEN "null" ELSE JSONStringify(items[i]))
           \o SerializeElements(items, i + 1)

\* Own properties in property order; a property JSON cannot represent is skipped.
SerializeProps(entries, i, first) ==
    IF i > Len(entries) THEN ""
    ELSE IF entries[i].val = Absent THEN SerializeProps(entries, i + 1, first)
    ELSE (IF first THEN "" ELSE ",")
           \o QuoteJSONString(entries[i].key) \o ":" \o JSONStringify(entries[i].val)
           \o SerializeProps(entries, i + 1, FALSE)

\* JSON.stringify(undefined) is undefined and no text: "undefined" stands for it.
JSONStringify(v) ==
    CASE v.k = "undefined" -> "undefined"
      [] v.k = "null" -> "null"
      [] v.k = "boolean" -> (IF v.b THEN "true" ELSE "false")
      [] v.k = "number" -> NumberToJSON(v)
      [] v.k = "string" -> QuoteJSONString(v.s)
      [] v.k = "array" -> "[" \o SerializeElements(v.items, 1) \o "]"
      [] v.k = "object" -> "{" \o SerializeProps(v.entries, 1, TRUE) \o "}"

\* The gap of JSON.stringify: a number gives that many spaces, ten at most,
\* a string its first ten code units, anything else no gap.
RECURSIVE SpacesOf(_)
SpacesOf(n) == IF n < 1 THEN "" ELSE " " \o SpacesOf(n - 1)

Gap(space) ==
    IF space.k = "number" /\ space.sp = "finite" THEN SpacesOf(IF space.n > 10 THEN 10 ELSE space.n)
    ELSE IF space.k = "string" /\ Len(space.s) <= 10 THEN space.s
    ELSE ""

RECURSIVE SerializeIndented(_, _, _)
RECURSIVE IndentedElements(_, _, _, _)
RECURSIVE IndentedProps(_, _, _, _, _)
IndentedElements(items, i, gap, indent) ==
    IF i > Len(items) THEN ""
    ELSE (IF i > 1 THEN ",\n" ELSE "") \o indent
           \o (IF items[i] = Absent THEN "null" ELSE SerializeIndented(items[i], gap, indent))
           \o IndentedElements(items, i + 1, gap, indent)

IndentedProps(entries, i, first, gap, indent) ==
    IF i > Len(entries) THEN ""
    ELSE IF entries[i].val = Absent THEN IndentedProps(entries, i + 1, first, gap, indent)
    ELSE (IF first THEN "" ELSE ",\n") \o indent
           \o QuoteJSONString(entries[i].key) \o ": "
           \o SerializeIndented(entries[i].val, gap, indent)
           \o IndentedProps(entries, i + 1, FALSE, gap, indent)

\* A value written with a non-empty gap: one element or property per line,
\* indented by one gap more than the line that opens the array or object.
SerializeIndented(v, gap, indent) ==
    IF ~IsComposite(v) THEN JSONStringify(v)
    ELSE IF v.k = "array"
    THEN IF v.items = << >> THEN "[]"
         ELSE "[\n" \o IndentedElements(v.items, 1, gap, indent \o gap)
                \o "\n" \o indent \o "]"
    ELSE IF \A i \in 1..Len(v.entries) : v.entries[i].val = Absent THEN "{}"
         ELSE "{\n" \o IndentedProps(v.entries, 1, TRUE, gap, indent \o gap)
                \o "\n" \o indent \o "}"

\* JSON.stringify(v, null, space)
JSONStringifySpace(v, space) ==
    IF Gap(space) = "" THEN JSONStringify(v) ELSE SerializeIndented(v, Gap(space), "")

\* The canonicalizers handed to createCanonicalJsonString: canonicalize (the
\* default), (v) => canonicalize(v, (a, b) => b.localeCompare(a)), and
\* (v) => [canonicalize(v)].
Canonicalizers == {"canonicalize", "canonicalizeReverse", "canonicalizeWrapped"}

ApplyCanonicalizer(canonicalizer, item) ==
    CASE canonicalizer = "canonicalize" -> canonicalize(item, "undefined")
      [] canonicalizer = "canonicalizeReverse" -> canonicalize(item, "reverseLocale")
      [] canonicalizer = "canonicalizeWrapped" -> Arr(<<canonicalize(item, "undefined")>>)

\* createCanonicalJsonString canonicalizing once more what the canonicalizer returned.
createCanonicalJsonStringTwice(item, canonicalizer, space) ==
    JSONStringifySpace(canonicalize(ApplyCanonicalizer(canonicalizer, item), "undefined"),
                       space)

\* createCanonicalJsonString(item, canonicalizer, space)
createCanonicalJsonStringWith(item, canonicalizer, space) ==
    LET canonicalItem == ApplyCanonicalizer(canonicalizer, item)
    IN  JSONStringifySpace(canonicalItem, space)

\* createCanonicalJsonString(item) with the default canonicalizer and no space.
createCanonicalJsonString(item) == createCanonicalJsonStringWith(item, "canonicalize", Absent)

(***************************************************************************)
(* semanticEquals                                                          *)
(***************************************************************************)
\* a == b, the loose comparison: null and undefined are equal, and a string or a
\* boolean is equal to the number it converts to.
LooseEquals(a, b, sameRef) ==
    LET Nullish(v) == v.k \in {"undefined", "null"}
        IsOne(v) == v \in {Num(1), Str("1"), Bool(TRUE)}
        IsZero(v) == v \in {Num(0), NegZero, Bool(FALSE)}
    IN  IF IsComposite(a) \/ IsComposite(b) THEN sameRef
        ELSE \/ Nullish(a) /\ Nullish(b)
             \/ IsOne(a) /\ IsOne(b)
             \/ IsZero(a) /\ IsZero(b)
             \/ a.k = b.k /\ a.k # "number" /\ a = b

\* a === b.  Composites are compared by reference: sameRef tells whether the
\* two arguments are one and the same object.
StrictEquals(a, b, sameRef) ==
    IF IsComposite(a) \/ IsComposite(b) THEN sameRef
    ELSE IF a.k # b.k THEN FALSE
    ELSE IF a.k = "number" THEN a.sp # "nan" /\ b.sp # "nan" /\ a.n = b.n
    ELSE a = b

\* semanticEquals without the check a === b: both values are always stringified.
StringifiedByAlways(a, b, sameRef) == <<a, b>>

\* The values semanticEquals hands to createCanonicalJsonString, in call order:
\* none when a === b returns first.
StringifiedBy(a, b, sameRef) ==
    IF StrictEquals(a, b, sameRef) THEN << >> ELSE <<a, b>>

\* semanticEquals without the comparison of the canonical strings.
semanticEqualsIdentityOnly(a, b, sameRef) == StrictEquals(a, b, sameRef)

semanticEquals(a, b, sameRef) ==
    IF StrictEquals(a, b, sameRef) THEN TRUE
    ELSE createCanonicalJsonString(a) = createCanonicalJsonString(b)

(***************************************************************************)
(* dedupeBy and semanticDedupe                                             *)
(***************************************************************************)
RECURSIVE DedupeLoop(_, _, _, _, _)

\* String(v)
RECURSIVE StringOf(_)
RECURSIVE JoinElements(_, _)
JoinElements(elements, i) ==
    IF i > Len(elements) THEN ""
    ELSE (IF i > 1 THEN "," ELSE "")
           \o (IF elements[i] \in {Absent, Null} THEN "" ELSE StringOf(elements[i]))
           \o JoinElements(elements, i + 1)
StringOf(v) ==
    CASE v.k = "undefined" -> "undefined"
      [] v.k = "null" -> "null"
      [] v.k = "boolean" -> (IF v.b THEN "true" ELSE "false")
      [] v.k = "number" ->
            (IF v.sp = "nan" THEN "NaN" ELSE IF v.sp = "negzero" THEN "0" ELSE ToString(v.n))
      [] v.k = "string" -> v.s
      [] v.k = "array" -> JoinElements(v.items, 1)
      [] v.k = "object" -> "[object Object]"

\* The key functions handed to dedupeBy: createCanonicalJsonString (what
\* semanticDedupe passes), (x) => String(x), and (o) => String(o.a) on objects.
Stringifiers == {"createCanonicalJsonString", "String", "StringOfA"}

ApplyStringifier(stringifier, item) ==
    CASE stringifier = "createCanonicalJsonString" -> createCanonicalJsonString(item)
      [] stringifier = "String" -> StringOf(item)
      [] stringifier = "StringOfA" -> StringOf(Get(item, "a"))

\* DedupeLoop without seen.add(key).
DedupeLoopNoAdd(items, i, seen, uniqueItems, stringifier) ==
    IF i > Len(items) THEN uniqueItems
    ELSE LET key == ApplyStringifier(stringifier, items[i])
         IN  IF key \notin seen
             THEN DedupeLoop(items, i + 1, seen,
                             Append(uniqueItems, items[i]), stringifier)
             ELSE DedupeLoop(items, i + 1, seen, uniqueItems, stringifier)

\* DedupeLoop collecting the canonical form of each first occurrence.
DedupeLoopPushCanonical(items, i, seen, uniqueItems, stringifier) ==
    IF i > Len(items) THEN uniqueItems
    ELSE LET key == ApplyStringifier(stringifier, items[i])
         IN  IF key \notin seen
             THEN DedupeLoop(items, i + 1, seen \cup {key},
                             Append(uniqueItems, canonicalize(items[i], "undefined")),
                             stringifier)
             ELSE DedupeLoop(items, i + 1, seen, uniqueItems, stringifier)

\* DedupeLoop handing the position to the key function with the item.
DedupeLoopKeyWithIndex(items, i, seen, uniqueItems, stringifier) ==
    IF i > Len(items) THEN uniqueItems
    ELSE LET key == ApplyStringifier(stringifier, items[i]) \o ToString(i)
         IN  IF key \notin seen
             THEN DedupeLoop(items, i + 1, seen \cup {key},
                             Append(uniqueItems, items[i]), stringifier)
             ELSE DedupeLoop(items, i + 1, seen, uniqueItems, stringifier)

\* The loop of dedupeBy over the items.
DedupeLoop(items, i, seen, uniqueItems, stringifier) ==
    IF i > Len(items) THEN uniqueItems
    ELSE LET key == ApplyStringifier(stringifier, items[i])
         IN  IF key \notin seen
             THEN DedupeLoop(items, i + 1, seen \cup {key},
                             Append(uniqueItems, items[i]), stringifier)
             ELSE DedupeLoop(items, i + 1, seen, uniqueItems, stringifier)

\* dedupeBy with the loop starting at the second item.
dedupeBySkipFirst(items, stringifier) == DedupeLoop(items, 2, {}, << >>, stringifier)

dedupeBy(items, stringifier) == DedupeLoop(items, 1, {}, << >>, stringifier)

\* semanticDedupe keyed by String(item).
semanticDedupeByString(items) == dedupeBy(items, "String")

semanticDedupe(items) == dedupeBy(items, "createCanonicalJsonString")

(***************************************************************************)
(* The explored inputs.                                                    *)
(***************************************************************************)
Prims == {Absent, Null, Bool(TRUE), Bool(FALSE), Num(0), Num(1), NegZero, NaN,
          Str("a"), Str("1"), Str("q\"")}

NestedLeaves == {Absent, Null, Num(1), Str("1")}

Keys == {"a", "b", "2", "10", "__proto__"}

\* The orders in which an object can hold its own keys.
IsPropertyOrder(ks) ==
    /\ \A i, j \in 1..Len(ks) : i # j => ks[i] # ks[j]
    /\ \A i, j \in 1..Len(ks) : i < j =>
          \/ ~IsArrayIndex(ks[j])
          \/ IsArrayIndex(ks[i]) /\ IndexOf(ks[i]) < IndexOf(ks[j])

KeyOrders(n) == {ks \in [1..n -> Keys] : IsPropertyOrder(ks)}

RECURSIVE Size(_)
RECURSIVE SizeSum(_, _)
SizeSum(vs, i) == IF i > Len(vs) THEN 0 ELSE Size(vs[i]) + SizeSum(vs, i + 1)
Size(v) ==
    IF v.k = "array" THEN 1 + SizeSum(v.items, 1)
    ELSE IF v.k = "object"
    THEN 1 + SizeSum([i \in 1..Len(v.entries) |-> v.entries[i].val], 1)
    ELSE 1

RECURSIVE Trees(_)
RECURSIVE Forests(_)
\* The sequences of trees of at most n nodes in all.
Forests(n) ==
    IF n = 0 THEN {<< >>}
    ELSE {<< >>} \cup UNION {{<<v>> \o r : r \in Forests(n - Size(v))} : v \in Trees(n)}
\* The trees of at most n nodes.
Trees(n) ==
    IF n = 0 THEN {}
    ELSE NestedLeaves
           \cup {Arr(vs) : vs \in Forests(n - 1)}
           \cup UNION {{Obj([i \in 1..Len(vs) |-> Prop(ks[i], vs[i])]) :
                           ks \in KeyOrders(Len(vs))} : vs \in Forests(n - 1)}

\* Larger inputs, after the test suites.
Sample1 ==
    Obj(<<Prop("c", Num(1)),
          Prop("a", Obj(<<Prop("c", Absent), Prop("b", Str("a")),
                          Prop("a", Arr(<<Num(1), Absent,
                                          Obj(<<Prop("b", Absent),
                                                Prop("a", Str("1"))>>)>>))>>)),
          Prop("b", Absent)>>)
Sample2 ==
    Arr(<<Obj(<<Prop("2", Str("a")), Prop("10", Null), Prop("b", Absent),
                Prop("a", Arr(<<Absent>>))>>), Absent>>)
Sample3 ==
    Obj(<<Prop("b", Obj(<<Prop("c", Num(1)), Prop("a", Num(0))>>)),
          Prop("a", Arr(<<Obj(<<Prop("b", Null), Prop("a", Absent)>>)>>))>>)
Samples == {Sample1, Sample2, Sample3}

Values == Prims \cup Trees(MaxNodes) \cup Samples

PairValues == Prims \cup Trees(MaxPairNodes)

ChainValues ==
    {Absent, Null, NaN, Num(0), NegZero, Num(1), Str("1"), Bool(TRUE),
     Arr(<< >>), Obj(<< >>), Arr(<<Absent>>), Arr(<<Null>>), Arr(<<NaN>>),
     Arr(<<Num(1)>>), Arr(<<Str("1")>>),
     Obj(<<Prop("a", Absent)>>), Obj(<<Prop("a", Null)>>),
     Obj(<<Prop("a", Num(1)), Prop("b", Num(1))>>),
     Obj(<<Prop("b", Num(1)), Prop("a", Num(1))>>),
     Obj(<<Prop("__proto__", Num(1))>>)}

\* obj with one more own property, as an object literal or JSON.parse creates it.
DefineProperty(obj, key, val) ==
    LET p == InsertAt(obj.entries, key)
    IN  Obj(SubSeq(obj.entries, 1, p - 1) \o <<Prop(key, val)>>
              \o SubSeq(obj.entries, p, Len(obj.entries)))

\* The mappings that receive one more key.
Mappings == {m \in Trees(MaxPairNodes) : m.k = "object"}

\* The items of the lists that are deduplicated.  A composite item carries the
\* identity of its reference in the field id: the same tree at two positions
\* of a list is two objects.
DedupeValues ==
    {Absent, Null, Num(1), Arr(<<Absent>>), Arr(<<Null>>),
     Obj(<<Prop("a", Num(1)), Prop("b", Absent)>>),
     Obj(<<Prop("a", Num(1))>>),
     Obj(<<Prop("a", Null)>>),
     Obj(<<Prop("b", Null), Prop("a", Str("1"))>>),
     Obj(<<Prop("a", Str("1")), Prop("b", Null)>>)}

WithId(v, id) ==
    IF v.k = "array" THEN [k |-> "array", items |-> v.items, id |-> id]
    ELSE IF v.k = "object" THEN [k |-> "object", entries |-> v.entries, id |-> id]
    ELSE v

ItemLists ==
    UNION {{[i \in 1..n |-> WithId(vs[i], i)] : vs \in [1..n -> DedupeValues]} :
              n \in 0..MaxItems}

\* The space argument: none, the numbers 0 and 2, and a string.
SpaceArgs == {Absent, Num(0), Num(2), Str("--")}

\* The same key-to-value pairs, inserted in another order at any depth.
RECURSIVE Shuffles(_)
RECURSIVE ShuffledSeqs(_, _)
ShuffledSeqs(vs, i) ==
    IF i > Len(vs) THEN {<< >>}
    ELSE {<<w>> \o r : w \in Shuffles(vs[i]), r \in ShuffledSeqs(vs, i + 1)}
Shuffles(v) ==
    IF v.k = "array" THEN {Arr(ws) : ws \in ShuffledSeqs(v.items, 1)}
    ELSE IF v.k = "object"
    THEN LET n == Len(v.entries)
             vals == [i \in 1..n |-> v.entries[i].val]
         IN  UNION {{Obj([i \in 1..n |-> Prop(v.entries[p[i]].key, ws[p[i]])]) :
                        p \in {q \in [1..n -> 1..n] :
                                 IsPropertyOrder([i \in 1..n |-> v.entries[q[i]].key])}} :
                    ws \in ShuffledSeqs(vals, 1)}
    ELSE {v}

\* The sequences that are reordered, and their reorderings.
Elements == {Absent, Null, Num(1), Str("1"), Arr(<< >>), Obj(<<Prop("a", Absent)>>)}
Sequences == UNION {[1..n -> Elements] : n \in 0..MaxLen}
Reorderings(s) ==
    {[i \in 1..Len(s) |-> s[p[i]]] :
        p \in {q \in [1..Len(s) -> 1..Len(s)] : \A i, j \in 1..Len(s) : i # j => q[i] # q[j]}}

(***************************************************************************)
(* parse and safeParse.  A text is the sequence of its JSON tokens, white    *)
(* space left out; "hello" is a token JSON does not have.                    *)
(***************************************************************************)
Tokens == {"[", "]", "{", "}", ",", ":", "1", "\"a\"", "hello"}

\* The texts of the tests, and texts with nesting and a repeated key.
SampleTexts ==
    {<<"{", "\"a\"", ":", "1", ",", "\"a\"", ":", "\"a\"", "}">>,
     <<"[", "1", ",", "\"a\"", ",", "1", "]">>,
     <<"{", "\"a\"", ":", "hello", "}">>,
     <<"{", "\"a\"", ":", "1", ",", "}">>,
     <<"[", "1", ",", "1", ",", "]">>,
     <<"hello", "hello">>,
     <<"{", "\"a\"", ":", "[", "{", "}", "]", "}">>,
     <<"{", "\"a\"", ":", "1", ",", "\"a\"", ":", "[", "]", "}">>}

Texts == UNION {[1..n -> Tokens] : n \in 0..MaxText} \cup SampleTexts

\* An own data property created or, when the key is there, given a new value.
CreateDataProperty(obj, key, val) ==
    IF HasOwnProperty(obj, key)
    THEN Obj([i \in 1..Len(obj.entries) |->
                IF obj.entries[i].key = key THEN Prop(key, val) ELSE obj.entries[i]])
    ELSE DefineProperty(obj, key, val)

NoParse == [ok |-> FALSE, val |-> Absent, next |-> 0]

\* JSON.parse: one value from position i on, and the position behind it.
RECURSIVE ParseValue(_, _)
RECURSIVE ParseElements(_, _, _)
RECURSIVE ParseMembers(_, _, _)
ParseElements(tokens, i, elements) ==
    LET r == ParseValue(tokens, i)
    IN  IF ~r.ok \/ r.next > Len(tokens) THEN NoParse
        ELSE IF tokens[r.next] = ","
        THEN ParseElements(tokens, r.next + 1, Append(elements, r.val))
        ELSE IF tokens[r.next] = "]"
        THEN [ok |-> TRUE, val |-> Arr(Append(elements, r.val)), next |-> r.next + 1]
        ELSE NoParse

ParseMembers(tokens, i, obj) ==
    IF i + 1 > Len(tokens) \/ tokens[i] # "\"a\"" \/ tokens[i + 1] # ":" THEN NoParse
    ELSE LET r == ParseValue(tokens, i + 2)
         IN  IF ~r.ok \/ r.next > Len(tokens) THEN NoParse
             ELSE IF tokens[r.next] = ","
             THEN ParseMembers(tokens, r.next + 1, CreateDataProperty(obj, "a", r.val))
             ELSE IF tokens[r.next] = "}"
             THEN [ok |-> TRUE, val |-> CreateDataProperty(obj, "a", r.val),
                   next |-> r.next + 1]
             ELSE NoParse

ParseValue(tokens, i) ==
    IF i > Len(tokens) THEN NoParse
    ELSE CASE tokens[i] = "1" -> [ok |-> TRUE, val |-> Num(1), next |-> i + 1]
           [] tokens[i] = "\"a\"" -> [ok |-> TRUE, val |-> Str("a"), next |-> i + 1]
           [] tokens[i] = "[" ->
                 IF i + 1 <= Len(tokens) /\ tokens[i + 1] = "]"
                 THEN [ok |-> TRUE, val |-> Arr(<< >>), next |-> i + 2]
                 ELSE ParseElements(tokens, i + 1, << >>)
           [] tokens[i] = "{" ->
                 IF i + 1 <= Len(tokens) /\ tokens[i + 1] = "}"
                 THEN [ok |-> TRUE, val |-> Obj(<< >>), next |-> i + 2]
                 ELSE ParseMembers(tokens, i + 1, Obj(<< >>))
           [] OTHER -> NoParse

\* What a call does: it returns a value or throws an error.  An error object
\* has the identity id.
Returns(val) == [kind |-> "return", val |-> val]
Throws(error) == [kind |-> "throw", error |-> error]
ErrorObject(name, id, message) == [name |-> name, id |-> id, message |-> message]

\* JSON.parse(jsonString).  Text that is not JSON raises a SyntaxError; the
\* engine may run out of resources inside the call and raise a RangeError.
JSONParse(jsonString, exhausted) ==
    LET r == ParseValue(jsonString, 1)
    IN  IF exhausted THEN Throws(ErrorObject("RangeError", 1, "Maximum call stack size exceeded"))
        ELSE IF r.ok /\ r.next = Len(jsonString) + 1 THEN Returns(r.val)
        ELSE Throws(ErrorObject("SyntaxError", 1, "Unexpected token"))

parse(jsonString, exhausted) == JSONParse(jsonString, exhausted)

\* safeParse throwing what parse throws.
safeParseRethrow(jsonString, exhausted) ==
    LET data == parse(jsonString, exhausted)
    IN  IF data.kind = "return" THEN Returns([success |-> TRUE, data |-> data.val])
        ELSE data

\* safeParse returning every error as it is.
safeParseRawError(jsonString, exhausted) ==
    LET data == parse(jsonString, exhausted)
    IN  IF data.kind = "return" THEN Returns([success |-> TRUE, data |-> data.val])
        ELSE Returns([success |-> FALSE, error |-> data.error])

safeParse(jsonString, exhausted) ==
    LET data == parse(jsonString, exhausted)
    IN  IF data.kind = "return" THEN Returns([success |-> TRUE, data |-> data.val])
        ELSE IF data.error.name = "SyntaxError"
        THEN Returns([success |-> FALSE, error |-> data.error])
        ELSE Returns([success |-> FALSE,
                      error |-> ErrorObject("SyntaxError", 2,
                                    "Unknown parsing error: " \o data.error.name \o ": "
                                      \o data.error.message)])

(***************************************************************************)
(* Calls in independent execution contexts.  A frame holds the arguments of *)
(* the call of one context and the local variables of that call; a step is  *)
(* one iteration of a loop or one statement.                                *)
(***************************************************************************)
Ctx == {1, 2}

NoFrame ==
    [op |-> "none", at |-> "idle", items |-> << >>, stringifier |-> "String",
     value |-> Absent, other |-> Absent, i |-> 0,
     seen |-> {}, uniqueItems |-> << >>, calls |-> << >>,
     sortedKeys |-> << >>, built |-> Absent, textA |-> "", textB |-> "",
     ret |-> Absent, overlapped |-> FALSE, given |-> << >>]

CtxValues ==
    {Absent, Null, Arr(<<Absent>>),
     Obj(<<Prop("b", Arr(<<Absent>>)), Prop("a", Num(1)), Prop("c", Absent)>>)}

CtxItemLists ==
    UNION {{[i \in 1..n |-> WithId(vs[i], i)] : vs \in [1..n -> CtxValues \ {Absent}]} :
              n \in 0..MaxCtxItems}

\* The frame of a call at its first statement.
DedupeCalls ==
    {[NoFrame EXCEPT !.op = "dedupeBy", !.at = "loop", !.items = xs, !.stringifier = f,
                     !.i = 1, !.given = xs] :
        xs \in CtxItemLists, f \in {"createCanonicalJsonString", "String"}}

CanonicalizeCalls ==
    {[NoFrame EXCEPT !.op = "canonicalize", !.at = "loop", !.value = v, !.i = 1,
                     !.sortedKeys = IF v.k = "object"
                                    THEN SortKeys(ObjectKeys(v), "undefined") ELSE << >>,
                     !.built = IF v.k = "array" THEN Arr(<< >>)
                               ELSE IF v.k = "object" THEN Obj(<< >>) ELSE Absent] :
        v \in CtxValues}

EqualsCalls ==
    {[NoFrame EXCEPT !.op = "semanticEquals", !.at = "loop", !.value = a, !.other = b,
                     !.i = 1] :
        a \in CtxValues, b \in {Null, Arr(<<Null>>)}}

StringifyCalls ==
    {[NoFrame EXCEPT !.op = "createCanonicalJsonString", !.at = "loop", !.value = v,
                     !.i = 1] :
        v \in CtxValues}

\* One seen-set for the calls of every context.
SeenOfEveryCall(fs, c) == UNION {fs[d].seen : d \in Ctx}

\* The seen-set the call of context c reads: const seen = new Set() of that call.
SeenOf(fs, c) == fs[c].seen

\* DedupeIteration without seen.add(key).
DedupeIterationNoAdd(f, seen) ==
    IF f.i > Len(f.items) THEN [f EXCEPT !.at = "done", !.ret = f.uniqueItems]
    ELSE LET item == f.items[f.i]
             key == ApplyStringifier(f.stringifier, item)
         IN  IF key \notin seen
             THEN [f EXCEPT !.i = @ + 1, !.calls = Append(@, item),
                            !.uniqueItems = Append(@, item)]
             ELSE [f EXCEPT !.i = @ + 1, !.calls = Append(@, item)]

\* One iteration of the loop of dedupeBy, or the return behind the loop.
DedupeIteration(f, seen) ==
    IF f.i > Len(f.items) THEN [f EXCEPT !.at = "done", !.ret = f.uniqueItems]
    ELSE LET item == f.items[f.i]
             key == ApplyStringifier(f.stringifier, item)
         IN  IF key \notin seen
             THEN [f EXCEPT !.i = @ + 1, !.calls = Append(@, item),
                            !.seen = seen \cup {key},
                            !.uniqueItems = Append(@, item)]
             ELSE [f EXCEPT !.i = @ + 1, !.calls = Append(@, item)]

\* One iteration of the loop of canonicalize over the elements or the sorted
\* keys of its argument, or the return.
CanonicalizeIteration(f) ==
    IF f.value = Absent THEN [f EXCEPT !.at = "done", !.ret = Null]
    ELSE IF ~IsComposite(f.value) THEN [f EXCEPT !.at = "done", !.ret = f.value]
    ELSE IF f.value.k = "array"
    THEN IF f.i > Len(f.value.items) THEN [f EXCEPT !.at = "done", !.ret = f.built]
         ELSE [f EXCEPT !.i = @ + 1,
                        !.built = Arr(Append(f.built.items,
                                             canonicalize(f.value.items[f.i], "undefined")))]
    ELSE IF f.i > Len(f.sortedKeys) THEN [f EXCEPT !.at = "done", !.ret = f.built]
         ELSE LET key == f.sortedKeys[f.i]
                  propertyValue == Get(f.value, key)
              IN  IF HasOwnProperty(f.value, key) /\ propertyValue # Absent
                  THEN [f EXCEPT !.i = @ + 1,
                                 !.built = ObjSet(f.built, key,
                                                  canonicalize(propertyValue, "undefined"))]
                  ELSE [f EXCEPT !.i = @ + 1]

\* One statement of semanticEquals: a === b, then one canonical string each.
EqualsStatement(f) ==
    IF f.i = 1
    THEN IF StrictEquals(f.value, f.other, FALSE) THEN [f EXCEPT !.at = "done", !.ret = TRUE]
         ELSE [f EXCEPT !.i = 2]
    ELSE IF f.i = 2 THEN [f EXCEPT !.i = 3, !.textA = createCanonicalJsonString(f.value)]
    ELSE LET textB == createCanonicalJsonString(f.other)
         IN  [f EXCEPT !.textB = textB, !.at = "done", !.ret = (f.textA = textB)]

\* One statement of createCanonicalJsonString.
StringifyStatement(f) ==
    IF f.i = 1 THEN [f EXCEPT !.i = 2, !.built = canonicalize(f.value, "undefined")]
    ELSE [f EXCEPT !.at = "done", !.ret = JSONStringify(f.built)]

(***************************************************************************)
(* canonicalize on the call stack.  Every call of canonicalize takes one     *)
(* frame of the engine's call stack; a call made when the stack is full      *)
(* raises a RangeError, which canonicalize does not catch.                   *)
(***************************************************************************)
\* The deepest nesting of the inputs: one level more than the stack has room for.
MaxDepth == StackLimit + 1

\* A value nested d levels deep, arrays and objects in turn.
RECURSIVE Nested(_, _)
Nested(d, kind) ==
    IF d = 0 THEN Num(1)
    ELSE IF kind = "array" THEN Arr(<<Absent, Nested(d - 1, "object")>>)
    ELSE Obj(<<Prop("b", Nested(d - 1, "array")), Prop("a", Absent)>>)

OnHeap(v) ==
    LET a == Alloc(<< >>, v) IN [heap |-> a.heap, root |-> a.ret, cyclic |-> FALSE]

\* Heaps with a sequence or a mapping reachable from itself.
CyclicInputs ==
    {[heap |-> <<Arr(<<Ref(1)>>)>>, root |-> Ref(1), cyclic |-> TRUE],
     [heap |-> <<Obj(<<Prop("a", Ref(1))>>)>>, root |-> Ref(1), cyclic |-> TRUE],
     [heap |-> <<Arr(<<Num(1), Ref(2)>>), Obj(<<Prop("b", Null), Prop("a", Ref(1))>>)>>,
      root |-> Ref(1), cyclic |-> TRUE],
     [heap |-> <<Obj(<<Prop("a", Ref(2))>>), Arr(<<Ref(2)>>)>>,
      root |-> Ref(1), cyclic |-> TRUE]}

StackInputs ==
    {OnHeap(Nested(d, kind)) : d \in 0..MaxDepth, kind \in {"array", "object"}}
        \cup {OnHeap(Absent)} \cup CyclicInputs

NoMachine ==
    [at |-> "idle", heap |-> << >>, root |-> Absent, cyclic |-> FALSE,
     stack |-> << >>, mode |-> "none", arg |-> Absent, ret |-> Absent]

Top(m) == m.stack[Len(m.stack)]

Pop(m) == SubSeq(m.stack, 1, Len(m.stack) - 1)

\* The call of canonicalize(v) on a sequence or mapping entered with cycle
\* detection: a node whose call is still on the stack is not entered again.
EnterFrameUnlessVisiting(m, v) ==
    IF \E n \in 1..Len(m.stack) : m.stack[n].node = v.id
    THEN [m EXCEPT !.mode = "ret", !.arg = Null]
    ELSE LET node == m.heap[v.id]
             out == Len(m.heap) + 1
         IN  [m EXCEPT !.heap = Append(@, IF node.k = "array" THEN Arr(<< >>) ELSE Obj(<< >>)),
                       !.stack = Append(@, [node |-> v.id, out |-> out, i |-> 1,
                                            sortedKeys |->
                                                IF node.k = "object"
                                                THEN SortKeys(ObjectKeys(node), "undefined")
                                                ELSE << >>]),
                       !.mode = "loop"]

\* The call of canonicalize(v) on a sequence or mapping is entered: its frame,
\* with newArray or newObj and sortedKeys, is pushed.
EnterFrame(m, v) ==
    LET node == m.heap[v.id]
        out == Len(m.heap) + 1
    IN  [m EXCEPT !.heap = Append(@, IF node.k = "array" THEN Arr(<< >>) ELSE Obj(<< >>)),
                  !.stack = Append(@, [node |-> v.id, out |-> out, i |-> 1,
                                       sortedKeys |->
                                           IF node.k = "object"
                                           THEN SortKeys(ObjectKeys(node), "undefined")
                                           ELSE << >>]),
                  !.mode = "loop"]

\* The element or property value the loop of the top frame is at; Done behind
\* the last one.
Done == [k |-> "done"]
Current(m) ==
    LET f == Top(m)
        node == m.heap[f.node]
    IN  IF node.k = "array"
        THEN IF f.i > Len(node.items) THEN Done ELSE node.items[f.i]
        ELSE IF f.i > Len(f.sortedKeys) THEN Done ELSE Get(node, f.sortedKeys[f.i])

\* newArray.push(x) or newObj[key] = x in the top frame, and on to the next.
Store(m, x) ==
    LET f == Top(m)
        node == m.heap[f.node]
    IN  [m EXCEPT !.heap[f.out] =
                      IF node.k = "array" THEN Arr(Append(@.items, x))
                      ELSE ObjSet(@, f.sortedKeys[f.i], x),
                  !.stack[Len(m.stack)].i = @ + 1,
                  !.mode = "loop"]

(***************************************************************************)
(* The calls.                                                              *)
(***************************************************************************)
\* The call in progress, its arguments and what it returned.
VARIABLES pc, value, other, third, compareFn, sameRef,
          result, result2, text, text2, equal, unique

\* The list handed to dedupeBy, its key function, and what a second dedupeBy
\* over the output returned.
VARIABLES items, stringifier, unique2
dedupeVars == <<items, stringifier, unique2>>

\* The heap before and after a call of canonicalize, the argument and what
\* the call returned.
VARIABLES heapBefore, heapAfter, argument, returned
heapVars == <<heapBefore, heapAfter, argument, returned>>

\* The canonicalizer and the space handed to createCanonicalJsonString.
VARIABLES canonicalizer, space
stringifyVars == <<canonicalizer, space>>

\* The text handed to parse and safeParse, and what each call did.
VARIABLES jsonText, parsed, safeParsed
NoCall == [kind |-> "none"]
parseVars == <<jsonText, parsed, safeParsed>>

\* The calls of one caller, one after the other.
\* The values semanticEquals handed to the stringifier.
VARIABLE stringified

callVars == <<pc, value, other, third, compareFn, sameRef,
              result, result2, text, text2, equal, unique, dedupeVars, heapVars,
              stringifyVars, parseVars, stringified>>

\* The call in progress in each of the independent execution contexts, with
\* the local variables of that call.
VARIABLE frames

\* One call of canonicalize, executed call by call on the engine's call stack.
VARIABLE machine

vars == <<runtime, callVars, frames, machine>>

NoEqual == [ab |-> FALSE, ba |-> FALSE, bc |-> FALSE, ac |-> FALSE, aa |-> FALSE]

Init ==
    /\ runtime \in Runtimes
    /\ pc = "idle"
    /\ value = Absent /\ other = Absent /\ third = Absent
    /\ compareFn = "undefined" /\ sameRef = FALSE
    /\ result = Absent /\ result2 = Absent
    /\ text = "" /\ text2 = ""
    /\ equal = NoEqual
    /\ unique = << >>
    /\ items = << >> /\ stringifier = "createCanonicalJsonString" /\ unique2 = << >>
    /\ heapBefore = << >> /\ heapAfter = << >> /\ argument = Absent /\ returned = Absent
    /\ canonicalizer = "canonicalize" /\ space = Absent
    /\ jsonText = << >> /\ parsed = NoCall /\ safeParsed = NoCall
    /\ stringified = << >>
    /\ frames = [c \in Ctx |-> NoFrame]
    /\ machine = NoMachine

\* canonicalize(v, f)
Canonicalize ==
    /\ pc = "idle"
    /\ \E v \in Values, f \in CompareFns :
          /\ pc' = "canonicalize"
          /\ value' = v /\ compareFn' = f
          /\ result' = canonicalize(v, f)
    /\ UNCHANGED <<runtime, frames, machine, stringified, parseVars, stringifyVars, heapVars, dedupeVars, other, third, sameRef, result2, text, text2, equal, unique>>

\* canonicalize(result, compareFn) on what the call before returned
Recanonicalize ==
    /\ pc = "canonicalize"
    /\ pc' = "recanonicalize"
    /\ result2' = canonicalize(result, compareFn)
    /\ UNCHANGED <<runtime, frames, machine, stringified, parseVars, stringifyVars, heapVars, dedupeVars, value, other, third, compareFn, sameRef, result, text, text2,
                   equal, unique>>

\* createCanonicalJsonString(v); result is the canonical item it stringifies
Stringify ==
    /\ pc = "idle"
    /\ \E v \in Values :
          /\ pc' = "stringify"
          /\ value' = v
          /\ result' = canonicalize(v, "undefined")
          /\ text' = createCanonicalJsonString(v)
    /\ UNCHANGED <<runtime, frames, machine, stringified, parseVars, stringifyVars, heapVars, dedupeVars, other, third, compareFn, sameRef, result2, text2, equal, unique>>

\* createCanonicalJsonString of m1 and of m2, the same pairs in another order
StringifyShuffled ==
    /\ pc = "idle"
    /\ \E m1 \in Values : \E m2 \in Shuffles(m1) :
          /\ pc' = "shuffled"
          /\ value' = m1 /\ other' = m2
          /\ text' = createCanonicalJsonString(m1)
          /\ text2' = createCanonicalJsonString(m2)
    /\ UNCHANGED <<runtime, frames, machine, stringified, parseVars, stringifyVars, heapVars, dedupeVars, third, compareFn, sameRef, result, result2, equal, unique>>

\* semanticEquals(a, b), next to the two canonical strings; same tells whether
\* a and b are one reference
SemanticEquals ==
    /\ pc = "idle"
    /\ \E a \in PairValues, b \in PairValues, same \in BOOLEAN :
          /\ same => (a = b /\ IsComposite(a))
          /\ pc' = "semanticEquals"
          /\ value' = a /\ other' = b /\ sameRef' = same
          /\ equal' = [NoEqual EXCEPT !.ab = semanticEquals(a, b, same)]
          /\ text' = createCanonicalJsonString(a)
          /\ text2' = createCanonicalJsonString(b)
          /\ stringified' = StringifiedBy(a, b, same)
    /\ UNCHANGED <<runtime, frames, machine, parseVars, stringifyVars, heapVars, dedupeVars, third, compareFn, result, result2, unique>>

\* semanticEquals over three values a, b, c held by three distinct references
EqualsChain ==
    /\ pc = "idle"
    /\ \E a \in ChainValues, b \in ChainValues, c \in ChainValues :
          /\ pc' = "chain"
          /\ value' = a /\ other' = b /\ third' = c
          /\ equal' = [ab |-> semanticEquals(a, b, FALSE),
                       ba |-> semanticEquals(b, a, FALSE),
                       bc |-> semanticEquals(b, c, FALSE),
                       ac |-> semanticEquals(a, c, FALSE),
                       aa |-> semanticEquals(a, a, IsComposite(a))]
    /\ UNCHANGED <<runtime, frames, machine, stringified, parseVars, stringifyVars, heapVars, dedupeVars, compareFn, sameRef, result, result2, text, text2, unique>>

\* the sequences s and t, t a reordering of s: their canonical strings,
\* semanticEquals(s, t) and semanticDedupe([s, t])
StringifyReordered ==
    /\ pc = "idle"
    /\ \E s \in Sequences : \E t \in Reorderings(s) :
          /\ pc' = "reordered"
          /\ value' = Arr(s) /\ other' = Arr(t)
          /\ text' = createCanonicalJsonString(Arr(s))
          /\ text2' = createCanonicalJsonString(Arr(t))
          /\ equal' = [NoEqual EXCEPT !.ab = semanticEquals(Arr(s), Arr(t), FALSE)]
          /\ unique' = semanticDedupe(<<Arr(s), Arr(t)>>)
    /\ UNCHANGED <<runtime, frames, machine, stringified, parseVars, stringifyVars, heapVars, dedupeVars, third, compareFn, sameRef, result, result2>>

\* semanticEquals(m with key k mapped to v, m) for a key k that m lacks, v
\* being null or undefined; result is canonicalize of m with k
EqualsWithExtraKey ==
    /\ pc = "idle"
    /\ \E m \in Mappings : \E key \in Keys \ KeySet(m) : \E v \in {Null, Absent} :
          /\ pc' = "extraKey"
          /\ value' = DefineProperty(m, key, v) /\ other' = m
          /\ result' = canonicalize(DefineProperty(m, key, v), "undefined")
          /\ equal' = [NoEqual EXCEPT !.ab =
                          semanticEquals(DefineProperty(m, key, v), m, FALSE)]
    /\ UNCHANGED <<runtime, frames, machine, stringified, parseVars, stringifyVars, heapVars, dedupeVars, third, compareFn, sameRef, result2, text, text2, unique>>

\* dedupeBy(xs, f)
DedupeBy ==
    /\ pc = "idle"
    /\ \E xs \in ItemLists, f \in Stringifiers \ {"createCanonicalJsonString"} :
          /\ f = "StringOfA" => \A i \in 1..Len(xs) : xs[i].k = "object"
          /\ pc' = "dedupeBy"
          /\ items' = xs /\ stringifier' = f
          /\ unique' = dedupeBy(xs, f)
    /\ UNCHANGED <<runtime, frames, machine, stringified, parseVars, stringifyVars, heapVars, value, other, third, compareFn, sameRef, result, result2,
                   text, text2, equal, unique2>>

\* semanticDedupe(xs)
SemanticDedupe ==
    /\ pc = "idle"
    /\ \E xs \in ItemLists :
          /\ pc' = "semanticDedupe"
          /\ items' = xs /\ stringifier' = "createCanonicalJsonString"
          /\ unique' = semanticDedupe(xs)
    /\ UNCHANGED <<runtime, frames, machine, stringified, parseVars, stringifyVars, heapVars, value, other, third, compareFn, sameRef, result, result2,
                   text, text2, equal, unique2>>

\* dedupeBy(unique, stringifier) on what the call before returned
DedupeAgain ==
    /\ pc \in {"dedupeBy", "semanticDedupe"}
    /\ pc' = "dedupeAgain"
    /\ unique2' = dedupeBy(unique, stringifier)
    /\ UNCHANGED <<runtime, frames, machine, stringified, parseVars, stringifyVars, heapVars, value, other, third, compareFn, sameRef, result, result2,
                   text, text2, equal, unique, items, stringifier>>

\* canonicalize(v, f) on a value the caller holds on the heap
CanonicalizeOnHeap ==
    /\ pc = "idle"
    /\ \E v \in PairValues \cup Samples, f \in CompareFns :
          LET a == Alloc(<< >>, v)
              r == canonicalizeNode(a.heap, a.ret, f)
          IN  /\ pc' = "canonicalizeOnHeap"
              /\ value' = v /\ compareFn' = f
              /\ heapBefore' = a.heap /\ argument' = a.ret
              /\ heapAfter' = r.heap /\ returned' = r.ret
    /\ UNCHANGED <<runtime, frames, machine, stringified, parseVars, stringifyVars, dedupeVars, other, third, sameRef, result, result2,
                   text, text2, equal, unique>>

\* createCanonicalJsonString(v, c, sp)
StringifyWith ==
    /\ pc = "idle"
    /\ \E v \in PairValues \cup Samples, c \in Canonicalizers, sp \in SpaceArgs :
          /\ pc' = "stringifyWith"
          /\ value' = v /\ canonicalizer' = c /\ space' = sp
          /\ text' = createCanonicalJsonStringWith(v, c, sp)
    /\ UNCHANGED <<runtime, frames, machine, stringified, parseVars, heapVars, dedupeVars, other, third, compareFn, sameRef,
                   result, result2, text2, equal, unique>>

\* parse(t) and safeParse(t) on the same text
SafeParse ==
    /\ pc = "idle"
    /\ \E t \in Texts, exhausted \in BOOLEAN :
          /\ pc' = "safeParse"
          /\ jsonText' = t
          /\ parsed' = parse(t, exhausted)
          /\ safeParsed' = safeParse(t, exhausted)
    /\ UNCHANGED <<runtime, frames, machine, stringified, heapVars, dedupeVars, stringifyVars, value, other, third,
                   compareFn, sameRef, result, result2, text, text2, equal, unique>>

\* the caller takes the result: ready for the next call
Return ==
    /\ pc # "idle"
    /\ pc' = "idle"
    /\ value' = Absent /\ other' = Absent /\ third' = Absent
    /\ compareFn' = "undefined" /\ sameRef' = FALSE
    /\ result' = Absent /\ result2' = Absent
    /\ text' = "" /\ text2' = ""
    /\ equal' = NoEqual
    /\ unique' = << >>
    /\ items' = << >> /\ stringifier' = "createCanonicalJsonString" /\ unique2' = << >>
    /\ heapBefore' = << >> /\ heapAfter' = << >> /\ argument' = Absent /\ returned' = Absent
    /\ canonicalizer' = "canonicalize" /\ space' = Absent
    /\ jsonText' = << >> /\ parsed' = NoCall /\ safeParsed' = NoCall
    /\ stringified' = << >>
    /\ UNCHANGED <<runtime, frames, machine>>

\* a context calls one of the functions
CtxCall ==
    \E c \in Ctx :
        /\ frames[c].at = "idle"
        /\ \E call \in DedupeCalls \cup CanonicalizeCalls \cup EqualsCalls
                         \cup StringifyCalls :
              frames' = [frames EXCEPT ![c] =
                            [call EXCEPT !.overlapped =
                                \E d \in Ctx \ {c} : frames[d].at = "loop"]]
        /\ UNCHANGED <<runtime, callVars, machine>>

DedupeStep ==
    \E c \in Ctx :
        /\ frames[c].at = "loop" /\ frames[c].op = "dedupeBy"
        /\ frames' = [frames EXCEPT ![c] = DedupeIteration(frames[c], SeenOf(frames, c))]
        /\ UNCHANGED <<runtime, callVars, machine>>

CanonicalizeStep ==
    \E c \in Ctx :
        /\ frames[c].at = "loop" /\ frames[c].op = "canonicalize"
        /\ frames' = [frames EXCEPT ![c] = CanonicalizeIteration(frames[c])]
        /\ UNCHANGED <<runtime, callVars, machine>>

EqualsStep ==
    \E c \in Ctx :
        /\ frames[c].at = "loop" /\ frames[c].op = "semanticEquals"
        /\ frames' = [frames EXCEPT ![c] = EqualsStatement(frames[c])]
        /\ UNCHANGED <<runtime, callVars, machine>>

StringifyStep ==
    \E c \in Ctx :
        /\ frames[c].at = "loop" /\ frames[c].op = "createCanonicalJsonString"
        /\ frames' = [frames EXCEPT ![c] = StringifyStatement(frames[c])]
        /\ UNCHANGED <<runtime, callVars, machine>>

\* the context takes what its call returned
CtxReturn ==
    \E c \in Ctx :
        /\ frames[c].at = "done"
        /\ frames' = [frames EXCEPT ![c] = NoFrame]
        /\ UNCHANGED <<runtime, callVars, machine>>

CtxNext ==
    \/ CtxCall
    \/ DedupeStep
    \/ CanonicalizeStep
    \/ EqualsStep
    \/ StringifyStep
    \/ CtxReturn

CtxSpec == Init /\ [][CtxNext]_vars

\* canonicalize(root) is called
StackCall ==
    /\ machine.at = "idle"
    /\ \E input \in StackInputs :
          machine' = [NoMachine EXCEPT !.at = "running", !.heap = input.heap,
                                       !.root = input.root, !.cyclic = input.cyclic,
                                       !.mode = "call", !.arg = input.root]
    /\ UNCHANGED <<runtime, callVars, frames>>

\* a call on undefined or a primitive returns at once
Leaf ==
    /\ machine.at = "running" /\ machine.mode = "call"
    /\ Len(machine.stack) < StackLimit
    /\ machine.arg.k # "ref"
    /\ machine' = [machine EXCEPT !.mode = "ret",
                                  !.arg = IF machine.arg = Absent THEN Null ELSE machine.arg]
    /\ UNCHANGED <<runtime, callVars, frames>>

\* a call on a sequence or a mapping
Enter ==
    /\ machine.at = "running" /\ machine.mode = "call"
    /\ Len(machine.stack) < StackLimit
    /\ machine.arg.k = "ref"
    /\ machine' = EnterFrame(machine, machine.arg)
    /\ UNCHANGED <<runtime, callVars, frames>>

\* a call with the stack full: the RangeError unwinds every frame
Overflow ==
    /\ machine.at = "running" /\ machine.mode = "call"
    /\ Len(machine.stack) = StackLimit
    /\ machine' = [machine EXCEPT !.at = "thrown", !.stack = << >>, !.mode = "none",
                                  !.ret = ErrorObject("RangeError", 1,
                                              "Maximum call stack size exceeded")]
    /\ UNCHANGED <<runtime, callVars, frames>>

\* the loop of the top frame: the recursive call on the next element or
\* property value, a property mapped to undefined being skipped
Iterate ==
    /\ machine.at = "running" /\ machine.mode = "loop"
    /\ Current(machine) # Done
    /\ machine' =
          IF machine.heap[Top(machine).node].k = "object" /\ Current(machine) = Absent
          THEN [machine EXCEPT !.stack[Len(machine.stack)].i = @ + 1]
          ELSE [machine EXCEPT !.mode = "call", !.arg = Current(machine)]
    /\ UNCHANGED <<runtime, callVars, frames>>

\* behind the loop: return newArray or newObj
Leave ==
    /\ machine.at = "running" /\ machine.mode = "loop"
    /\ Current(machine) = Done
    /\ machine' = [machine EXCEPT !.stack = Pop(machine), !.mode = "ret",
                                  !.arg = Ref(Top(machine).out)]
    /\ UNCHANGED <<runtime, callVars, frames>>

\* the caller's frame stores what the recursive call returned
Receive ==
    /\ machine.at = "running" /\ machine.mode = "ret"
    /\ machine.stack # << >>
    /\ machine' = Store(machine, machine.arg)
    /\ UNCHANGED <<runtime, callVars, frames>>

\* the outermost call returns
Finish ==
    /\ machine.at = "running" /\ machine.mode = "ret"
    /\ machine.stack = << >>
    /\ machine' = [machine EXCEPT !.at = "returned", !.mode = "none", !.ret = machine.arg]
    /\ UNCHANGED <<runtime, callVars, frames>>

\* the caller takes the value or the error
StackReturn ==
    /\ machine.at \in {"returned", "thrown"}
    /\ machine' = NoMachine
    /\ UNCHANGED <<runtime, callVars, frames>>

StackNext ==
    \/ StackCall
    \/ Leaf
    \/ Enter
    \/ Overflow
    \/ Iterate
    \/ Leave
    \/ Receive
    \/ Finish
    \/ StackReturn

StackSpec == Init /\ [][StackNext]_vars


Next ==
    \/ Canonicalize
    \/ Recanonicalize
    \/ Stringify
    \/ StringifyShuffled
    \/ SemanticEquals
    \/ EqualsChain
    \/ StringifyReordered
    \/ EqualsWithExtraKey
    \/ DedupeBy
    \/ SemanticDedupe
    \/ DedupeAgain
    \/ CanonicalizeOnHeap
    \/ StringifyWith
    \/ SafeParse
    \/ Return

Spec == Init /\ [][Next]_vars

(***************************************************************************)
(* Properties.                                                             *)
(***************************************************************************)
RECURSIVE IsStrict(_)
\* The Absent marker occurs nowhere in v.
IsStrict(v) ==
    /\ v # Absent
    /\ v.k = "array" => \A i \in 1..Len(v.items) : IsStrict(v.items[i])
    /\ v.k = "object" => \A i \in 1..Len(v.entries) : IsStrict(v.entries[i].val)

\* The keys of obj whose value is not Absent, in property order.
SurvivingKeys(obj) ==
    LET Defined(e) == e.val # Absent
        kept == SelectSeq(obj.entries, Defined)
    IN  [i \in 1..Len(kept) |-> kept[i].key]

\* obj with the keys mapped to Absent omitted.
OmitAbsent(obj) == LET Defined(e) == e.val # Absent IN Obj(SelectSeq(obj.entries, Defined))

\* C1: canonicalize(v, compareFn) is a strict value for every input and every
\* comparator: Absent occurs nowhere in the result, at any depth.
C1_CanonicalizeIsStrict ==
    pc \in {"canonicalize", "stringify"} => IsStrict(result)

C1_Witness ==
    /\ pc = "canonicalize" /\ value = Sample2 /\ compareFn = "reverseLocale"
    /\ ~IsStrict(value) /\ IsStrict(result)

\* C2: a key mapped to Absent canonicalizes as the key omitted, and the keys of
\* the output mapping are exactly the input keys whose value is not Absent.
C2_AbsentKeyIsOmitted ==
    (pc = "canonicalize" /\ value.k = "object") =>
        /\ result.k = "object"
        /\ result = canonicalize(OmitAbsent(value), compareFn)
        /\ KeySet(result) = {key \in KeySet(value) : Get(value, key) # Absent}

\* C3: canonicalize of a sequence is a sequence of the same length whose i-th
\* element is canonicalize of the i-th element; Absent becomes Null in place.
C3_SequenceElementwise ==
    (pc = "canonicalize" /\ value.k = "array") =>
        /\ result.k = "array"
        /\ Len(result.items) = Len(value.items)
        /\ \A i \in 1..Len(value.items) :
              /\ result.items[i] = canonicalize(value.items[i], compareFn)
              /\ value.items[i] = Absent => result.items[i] = Null

C3_Witness ==
    /\ pc = "canonicalize" /\ value.k = "array" /\ Len(value.items) = 2
    /\ value.items[1] = Absent /\ IsComposite(value.items[2])
    /\ result.items[1] = Null

\* C4: canonicalize(Absent) is Null, createCanonicalJsonString(Absent) is the
\* text null, and canonicalize returns every primitive unchanged.
C4_AbsentAndPrimitives ==
    /\ (pc = "canonicalize" /\ value = Absent) => result = Null
    /\ (pc = "stringify" /\ value = Absent) => text = "null"
    /\ (pc = "canonicalize" /\ value \in Prims \ {Absent}) => result = value

C4_Witness ==
    pc = "stringify" /\ value = Absent /\ result = Null /\ text = "null"

\* C5: the keys of the output mapping iterate in the order of the key ordering
\* in force (by default ascending string order), whatever the string keys are.
C5_KeysIterateSorted ==
    (pc = "canonicalize" /\ value.k = "object") =>
        \A i, j \in 1..Len(result.entries) :
            i < j => Compare(compareFn, result.entries[i].key, result.entries[j].key) <= 0

\* C6: canonicalize is idempotent under every comparator, key order included.
C6_Idempotent ==
    pc = "recanonicalize" => result2 = result

C6_Witness ==
    /\ pc = "recanonicalize" /\ value = Sample1 /\ compareFn = "byLength"
    /\ result # value /\ result2 = result

\* C7: two mappings holding the same key-to-value pairs in different insertion
\* orders, at the top or nested, have the same canonical string.
C7_KeyOrderInvariance ==
    pc = "shuffled" => text = text2

C7_Witness ==
    /\ pc = "shuffled" /\ value = Sample3
    /\ ObjectKeys(other) # ObjectKeys(value)
    /\ Get(other, "b") # Get(value, "b")
    /\ text = text2

\* C8: semanticEquals(a, b) is true exactly when the canonical strings of a and
\* b are equal, on the fast path too.
C8_EqualsIffSameString ==
    pc = "semanticEquals" => (equal.ab <=> text = text2)

C8_Witness ==
    /\ pc = "semanticEquals" /\ value = Num(0) /\ other = NegZero
    /\ equal.ab /\ text = text2

\* C9: semanticEquals is reflexive, symmetric and transitive.
C9_Equivalence ==
    pc = "chain" =>
        /\ equal.aa
        /\ equal.ab = equal.ba
        /\ (equal.ab /\ equal.bc) => equal.ac

C9_WitnessChain ==
    /\ pc = "chain" /\ value = Absent /\ other = Null /\ third = NaN
    /\ equal.ab /\ equal.bc /\ equal.ac

\* The elements of the sequence are all equal to one another (semanticEquals).
AllElementsEqual(s) ==
    \A i, j \in 1..Len(s) :
        createCanonicalJsonString(s[i]) = createCanonicalJsonString(s[j])

\* The two sequences differ, in canonical form, at some position.
DifferSomewhere(s, t) ==
    \E i \in 1..Len(s) :
        createCanonicalJsonString(s[i]) # createCanonicalJsonString(t[i])

\* C10 as stated: the same elements in a different order give different
\* canonical strings, semanticEquals false and both kept by semanticDedupe,
\* unless all elements are equal.
C10_OrderSensitiveUnlessAllEqual ==
    (pc = "reordered" /\ value # other /\ ~AllElementsEqual(value.items)) =>
        /\ text # text2
        /\ ~equal.ab
        /\ unique = <<value, other>>

\* C10 amended: the same elements in a different order give different canonical
\* strings, semanticEquals false and both kept by semanticDedupe, unless the
\* two sequences are semantically equal element by element.
C10_OrderSensitiveUnlessElementwiseEqual ==
    (pc = "reordered" /\ DifferSomewhere(value.items, other.items)) =>
        /\ text # text2
        /\ ~equal.ab
        /\ unique = <<value, other>>

C10_Witness ==
    /\ pc = "reordered"
    /\ value = Arr(<<Num(1), Str("1"), Absent>>)
    /\ other = Arr(<<Absent, Num(1), Str("1")>>)
    /\ text # text2 /\ ~equal.ab /\ unique = <<value, other>>

\* The key that value holds and other lacks.
ExtraKey == CHOOSE key \in KeySet(value) : key \notin KeySet(other)

\* C11: a key whose value is Null is kept by canonicalize with value Null, so a
\* mapping with one more key mapped to Null is not semanticEquals to the
\* mapping without it, while with the key mapped to Absent it is.
C11_NullKeptAbsentDropped ==
    pc = "extraKey" =>
        IF Get(value, ExtraKey) = Null
        THEN /\ HasOwnProperty(result, ExtraKey)
             /\ Get(result, ExtraKey) = Null
             /\ ~equal.ab
        ELSE /\ ~HasOwnProperty(result, ExtraKey)
             /\ equal.ab

\* C12: semanticEquals is false for two arguments of different kinds, Absent
\* and Null being the only pair of different kinds that is equal, and for two
\* sequences of different lengths.
C12_DifferentKindsDiffer ==
    pc = "semanticEquals" =>
        /\ (value.k # other.k /\ {value.k, other.k} # {"undefined", "null"}) => ~equal.ab
        /\ (value.k = "array" /\ other.k = "array"
              /\ Len(value.items) # Len(other.items)) => ~equal.ab

\* The positions of xs whose key no earlier position has.
FirstPositions(xs, f) ==
    {i \in 1..Len(xs) :
        \A j \in 1..(i - 1) : ApplyStringifier(f, xs[j]) # ApplyStringifier(f, xs[i])}

\* The n-th smallest position of the set ps.
NthOf(ps, n) == CHOOSE i \in ps : Cardinality({j \in ps : j < i}) = n - 1

KeysOf(xs, f) == {ApplyStringifier(f, xs[i]) : i \in 1..Len(xs)}

\* C13: dedupeBy(xs, f) is the subsequence of xs made of the first occurrence of
\* each distinct key, in the original order; its length is the number of
\* distinct keys and at most the length of xs.
C13_FirstOccurrencePerKey ==
    pc \in {"dedupeBy", "semanticDedupe"} =>
        LET first == FirstPositions(items, stringifier)
        IN  /\ Len(unique) = Cardinality(first)
            /\ \A n \in 1..Len(unique) : unique[n] = items[NthOf(first, n)]
            /\ Len(unique) <= Len(items)
            /\ Len(unique) = Cardinality(KeysOf(items, stringifier))

C13_Witness ==
    /\ pc = "dedupeBy" /\ stringifier = "String"
    /\ Len(items) = 3
    /\ items[1] = WithId(Arr(<<Absent>>), 1) /\ items[2] = WithId(Arr(<<Null>>), 2)
    /\ items[3] = Null
    /\ unique = <<items[1], Null>>

\* C14: dedupeBy is idempotent, dedupeBy(dedupeBy(xs, f), f) = dedupeBy(xs, f)
\* element for element, and a list whose keys are all distinct is returned as it is.
C14_DedupeIdempotent ==
    /\ pc = "dedupeAgain" => unique2 = unique
    /\ (/\ pc \in {"dedupeBy", "semanticDedupe"}
        /\ Cardinality(KeysOf(items, stringifier)) = Len(items)) => unique = items

C14_Witness ==
    /\ pc = "dedupeAgain" /\ stringifier = "StringOfA"
    /\ Len(items) = 3 /\ Len(unique) = 2 /\ unique2 = unique

C16_SemanticDedupeIsDedupeByCanonicalString ==
    pc = "semanticDedupe" =>
        LET k(x) == JSONStringify(canonicalize(x, "undefined"))
            first == {i \in 1..Len(items) : \A j \in 1..(i - 1) : k(items[j]) # k(items[i])}
        IN  unique = [n \in 1..Cardinality(first) |-> items[NthOf(first, n)]]

C16_Witness ==
    /\ pc = "semanticDedupe"
    /\ Len(items) = 3
    /\ items[1] = WithId(Obj(<<Prop("a", Null)>>), 1)
    /\ items[2] = WithId(Obj(<<Prop("b", Null), Prop("a", Str("1"))>>), 2)
    /\ items[3] = WithId(Obj(<<Prop("a", Str("1")), Prop("b", Null)>>), 3)
    /\ unique = <<items[1], items[2]>>

\* The key-to-value pairs of a mapping whose value is not Absent.
DefinedPairs(obj) ==
    {<<obj.entries[i].key, obj.entries[i].val>> :
        i \in {j \in 1..Len(obj.entries) : obj.entries[j].val # Absent}}

\* C17: semanticDedupe drops the item at position i exactly when an earlier
\* item is semanticEquals to it; a list of Null and Absent items only dedupes
\* to its first element; mappings differing only in key order or in
\* Absent-valued keys are duplicates.
C17_DropsIffEarlierSemanticEqual ==
    pc = "semanticDedupe" =>
        LET kept == {i \in 1..Len(items) :
                        ~ \E j \in 1..(i - 1) : semanticEquals(items[j], items[i], FALSE)}
        IN  /\ unique = [n \in 1..Cardinality(kept) |-> items[NthOf(kept, n)]]
            /\ (items # << >> /\ \A i \in 1..Len(items) : items[i] \in {Null, Absent})
                   => unique = <<items[1]>>
            /\ \A i, j \in 1..Len(items) :
                  (/\ i < j
                   /\ items[i].k = "object" /\ items[j].k = "object"
                   /\ DefinedPairs(items[i]) = DefinedPairs(items[j]))
                      => \A n \in 1..Len(unique) : unique[n] # items[j]

C17_Witness ==
    /\ pc = "semanticDedupe"
    /\ items = <<Absent, Null, Absent>>
    /\ unique = <<Absent>>

\* C18: canonicalize does not mutate its input and returns a full structural
\* copy: after the call every node of the input is as it was before, and no
\* node of the result is a node of the input, also when the input is already
\* canonical.
C18_InputUntouchedResultFresh ==
    pc = "canonicalizeOnHeap" =>
        /\ \A id \in 1..Len(heapBefore) : heapAfter[id] = heapBefore[id]
        /\ Deref(heapAfter, argument) = value
        /\ Reach(heapAfter, returned) \cap Reach(heapBefore, argument) = {}
        /\ Reach(heapAfter, returned) \cap (1..Len(heapBefore)) = {}
        /\ Deref(heapAfter, returned) = canonicalize(value, compareFn)

C18_Witness ==
    /\ pc = "canonicalizeOnHeap" /\ compareFn = "undefined"
    /\ value = Obj(<<Prop("a", Arr(<< >>))>>)
    /\ Deref(heapAfter, returned) = value
    /\ argument = Ref(1) /\ returned = Ref(3)
    /\ heapAfter[3] = Obj(<<Prop("a", Ref(4))>>)

\* C19: createCanonicalJsonString(value, f, space) is JSON.stringify(f(value),
\* null, space): f is applied once, canonicalize is not applied in addition,
\* and the keys are written in the order f(value) iterates them.
C19_EncodesWhatCanonicalizerReturns ==
    pc = "stringifyWith" =>
        LET once == CASE canonicalizer = "canonicalize" -> canonicalize(value, "undefined")
                      [] canonicalizer = "canonicalizeReverse" ->
                            canonicalize(value, "reverseLocale")
                      [] canonicalizer = "canonicalizeWrapped" ->
                            Arr(<<canonicalize(value, "undefined")>>)
        IN  /\ text = JSONStringifySpace(once, space)
            /\ Gap(space) = "" => text = JSONStringify(once)

C19_Witness ==
    /\ pc = "stringifyWith" /\ canonicalizer = "canonicalizeReverse" /\ space = Num(2)
    /\ value = Sample3
    /\ text = "{\n  \"b\": {\n    \"c\": 1,\n    \"a\": 0\n  },\n  \"a\": [\n    {\n      \"b\": null\n    }\n  ]\n}"

\* The keys of every mapping of v, at every depth, iterate in the order of compareFn.
RECURSIVE SortedAtEveryDepth(_, _)
SortedAtEveryDepth(v, f) ==
    IF v.k = "array" THEN \A i \in 1..Len(v.items) : SortedAtEveryDepth(v.items[i], f)
    ELSE IF v.k = "object"
    THEN /\ \A i, j \in 1..Len(v.entries) :
                i < j => Compare(f, v.entries[i].key, v.entries[j].key) <= 0
         /\ \A i \in 1..Len(v.entries) : SortedAtEveryDepth(v.entries[i].val, f)
    ELSE TRUE

\* C20: a custom comparator passed to canonicalize governs the key order of
\* every mapping at every depth, inside sequences and inside other mappings:
\* the keys of the output iterate in the order the comparator gives.
C20_CustomOrderAtEveryDepth ==
    (pc = "canonicalize" /\ compareFn # "undefined") => SortedAtEveryDepth(result, compareFn)

\* The mapping with the surviving keys of obj in ascending string order, as a
\* reader of the canonical string expects them.
InStringOrder(obj) ==
    LET keys == SortKeys(SurvivingKeys(obj), "undefined")
    IN  Obj([i \in 1..Len(keys) |->
                Prop(keys[i], canonicalize(Get(obj, keys[i]), "undefined"))])

\* C21: keys that look like numbers are ordered as strings like any other key:
\* the canonical string of a mapping with such keys lists them in ascending
\* string order ("10" before "2").
C21_NumericKeysInStringOrder ==
    (/\ pc = "stringify"
     /\ value.k = "object"
     /\ \A i \in 1..Len(value.entries) : IsArrayIndex(value.entries[i].key))
        => text = JSONStringify(InStringOrder(value))

\* The texts the tests call malformed: empty, trailing comma, unquoted token,
\* text that is not JSON.
MalformedTexts ==
    {<< >>, <<"[", "1", ",", "1", ",", "]">>, <<"{", "\"a\"", ":", "1", ",", "}">>,
     <<"{", "\"a\"", ":", "hello", "}">>, <<"hello", "hello">>}

\* C22: safeParse never throws; it returns success with the value parse
\* returns when the text decodes, and failure with the SyntaxError parse
\* throws when the text is malformed.
C22_SafeParseNeverThrows ==
    pc = "safeParse" =>
        /\ safeParsed.kind = "return"
        /\ parsed.kind = "return" =>
              safeParsed.val = [success |-> TRUE, data |-> parsed.val]
        /\ (parsed.kind = "throw" /\ parsed.error.name = "SyntaxError") =>
              safeParsed.val = [success |-> FALSE, error |-> parsed.error]
        /\ jsonText \in MalformedTexts => ~safeParsed.val.success

C22_Witness ==
    /\ pc = "safeParse"
    /\ jsonText = <<"{", "\"a\"", ":", "hello", "}">>
    /\ parsed.kind = "throw" /\ parsed.error.name = "SyntaxError"
    /\ safeParsed.kind = "return" /\ ~safeParsed.val.success
    /\ safeParsed.val.error = parsed.error

\* C23: the error of a failed safeParse is always a SyntaxError: the one the
\* codec threw, the same object, or a new SyntaxError wrapping any other
\* error; no other error is returned and none is thrown.
C23_FailureIsAlwaysSyntaxError ==
    (pc = "safeParse" /\ parsed.kind = "throw") =>
        /\ safeParsed.kind = "return"
        /\ ~safeParsed.val.success
        /\ safeParsed.val.error.name = "SyntaxError"
        /\ IF parsed.error.name = "SyntaxError"
           THEN safeParsed.val.error.id = parsed.error.id
           ELSE safeParsed.val.error.id # parsed.error.id

C23_Witness ==
    /\ pc = "safeParse"
    /\ jsonText = <<"[", "1", "]">>
    /\ parsed.kind = "throw" /\ parsed.error.name = "RangeError"
    /\ safeParsed.kind = "return"
    /\ safeParsed.val.error.name = "SyntaxError" /\ safeParsed.val.error.id = 2

\* What the call of a frame returns when it runs alone.
AloneResult(f) ==
    CASE f.op = "dedupeBy" -> dedupeBy(f.items, f.stringifier)
      [] f.op = "canonicalize" -> canonicalize(f.value, "undefined")
      [] f.op = "semanticEquals" -> semanticEquals(f.value, f.other, FALSE)
      [] f.op = "createCanonicalJsonString" -> createCanonicalJsonString(f.value)

\* C24: calls of canonicalize, createCanonicalJsonString, semanticEquals and
\* dedupeBy running in independent contexts do not interfere: under every
\* interleaving of their steps each call returns what it returns alone.
C24_ConcurrentCallsReturnAloneResult ==
    \A c \in Ctx : frames[c].at = "done" => frames[c].ret = AloneResult(frames[c])

C24_Witness ==
    /\ frames[1].at = "done" /\ frames[1].op = "dedupeBy" /\ frames[1].overlapped
    /\ Len(frames[1].items) = 2 /\ Len(frames[1].ret) = 1
    /\ frames[2].at = "loop" /\ frames[2].op = "dedupeBy" /\ frames[2].i = 2
    /\ frames[2].seen \cap frames[1].seen # {}

C26_CompositesAlwaysStringified ==
    pc = "semanticEquals" =>
        /\ (IsComposite(value) \/ IsComposite(other)) => stringified = <<value, other>>
        /\ stringified = << >> =>
              (~IsComposite(value) /\ StrictEquals(value, other, FALSE) /\ equal.ab)

\* C26, amended: the fast path is a === b.  It returns true without the
\* stringifier for primitives equal under ===, for two Absent, and for one and the
\* same sequence or mapping; composites held by two references are compared
\* by their canonical strings, and the fast path never changes the outcome.
C26_FastPathIsStrictEquality ==
    pc = "semanticEquals" =>
        /\ ((IsComposite(value) \/ IsComposite(other)) /\ ~sameRef)
              => (stringified = <<value, other>> /\ equal.ab = (text = text2))
        /\ sameRef => (stringified = << >> /\ equal.ab)
        /\ stringified = << >> =>
              /\ value = other \/ {value, other} = {Num(0), NegZero}
              /\ equal.ab /\ text = text2

C26_Witness ==
    /\ pc = "semanticEquals" /\ sameRef
    /\ value = Obj(<<Prop("a", Absent)>>) /\ other = value
    /\ stringified = << >> /\ equal.ab

\* The mapping step in the other order: first the keys whose value is not
\* Absent are collected, then the survivors are sorted, and the output mapping
\* iterates in that sorted order.
CollectThenSort(obj, f) ==
    LET keys == SortKeys(SurvivingKeys(obj), f)
    IN  Obj([i \in 1..Len(keys) |-> Prop(keys[i], canonicalize(Get(obj, keys[i]), f))])

\* C27: collecting the keys with a value first and sorting the survivors gives
\* the same output mapping, in the same key order, as sorting all keys and
\* skipping the Absent ones while inserting, for every mapping and comparator.
C27_CollectThenSortEqualsSortThenSkip ==
    (pc = "canonicalize" /\ value.k = "object") => result = CollectThenSort(value, compareFn)

\* C28: on a cyclic input canonicalize never returns a value: nothing detects
\* the cycle, the recursion goes on until the call stack is exhausted, and the
\* RangeError is not caught or turned into a result.
C28_CyclicInputNeverReturns ==
    machine.cyclic =>
        /\ machine.at # "returned"
        /\ machine.at = "running" => Len(machine.stack) <= StackLimit
        /\ machine.at = "thrown" =>
              (machine.ret.name = "RangeError" /\ machine.stack = << >>)

C28_Witness ==
    /\ machine.cyclic /\ machine.at = "thrown"
    /\ machine.root = Ref(1)
    /\ machine.heap[1] = Arr(<<Num(1), Ref(2)>>)
    /\ machine.ret.name = "RangeError"

\* s is a subsequence of t.
RECURSIVE IsSubsequence(_, _)
IsSubsequence(s, t) ==
    IF s = << >> THEN TRUE
    ELSE IF t = << >> THEN FALSE
    ELSE IF Head(s) = Head(t) THEN IsSubsequence(Tail(s), Tail(t))
    ELSE IsSubsequence(s, Tail(t))

\* C29: loop invariant of dedupeBy.  After any prefix of the input the seen-set
\* is exactly the set of keys of the output items, those keys are pairwise
\* distinct, the output is a subsequence of the prefix, every key of the prefix
\* is in the seen-set, the key function has been called once per item of the
\* prefix from left to right, and the input list is as it was given.
C29_DedupeLoopInvariant ==
    \A c \in Ctx :
        frames[c].op = "dedupeBy" =>
            LET f == frames[c]
                prefix == SubSeq(f.items, 1, f.i - 1)
                Key(x) == ApplyStringifier(f.stringifier, x)
            IN  /\ f.seen = {Key(f.uniqueItems[n]) : n \in 1..Len(f.uniqueItems)}
                /\ \A m, n \in 1..Len(f.uniqueItems) :
                      m # n => Key(f.uniqueItems[m]) # Key(f.uniqueItems[n])
                /\ IsSubsequence(f.uniqueItems, prefix)
                /\ \A n \in 1..Len(prefix) : Key(prefix[n]) \in f.seen
                /\ f.calls = prefix
                /\ f.items = f.given

C29_Witness ==
    /\ frames[1].op = "dedupeBy" /\ frames[1].at = "loop" /\ frames[1].i = 3
    /\ frames[1].stringifier = "String"
    /\ frames[1].items = <<WithId(Arr(<<Absent>>), 1), WithId(Arr(<<Absent>>), 2)>>
    /\ frames[1].seen = {""}
    /\ frames[1].uniqueItems = <<frames[1].items[1]>>

\* v is built from strings, booleans, Null, Absent, finite integers, sequences
\* and mappings: NaN occurs nowhere.
RECURSIVE IsFinitary(_)
IsFinitary(v) ==
    /\ v # NaN
    /\ v.k = "array" => \A i \in 1..Len(v.items) : IsFinitary(v.items[i])
    /\ v.k = "object" => \A i \in 1..Len(v.entries) : IsFinitary(v.entries[i].val)

\* Same kinds, same primitives, same elements in order, same keys in the same
\* order with identical values.
RECURSIVE StructurallyIdentical(_, _)
StructurallyIdentical(x, y) ==
    IF x.k # y.k THEN FALSE
    ELSE IF x.k = "array"
    THEN /\ Len(x.items) = Len(y.items)
         /\ \A i \in 1..Len(x.items) : StructurallyIdentical(x.items[i], y.items[i])
    ELSE IF x.k = "object"
    THEN /\ ObjectKeys(x) = ObjectKeys(y)
         /\ \A i \in 1..Len(x.entries) :
               StructurallyIdentical(x.entries[i].val, y.entries[i].val)
    ELSE StrictEquals(x, y, FALSE)

\* C30: for values without NaN, semanticEquals(a, b) is true exactly when
\* canonicalize(a) and canonicalize(b) are structurally identical: the encoding
\* is injective on canonical forms.
C30_EqualsIffCanonicalFormsIdentical ==
    (pc = "semanticEquals" /\ IsFinitary(value) /\ IsFinitary(other)) =>
        (equal.ab <=> StructurallyIdentical(canonicalize(value, "undefined"),
                                            canonicalize(other, "undefined")))

C30_Witness ==
    /\ pc = "semanticEquals"
    /\ value = Obj(<<Prop("a", Str("1"))>>) /\ other = Obj(<<Prop("a", Num(1))>>)
    /\ ~equal.ab

====
